---- MODULE Spec2Model ----
(* Type-level natural numbers N0..N32 of multi_array (src/src/typenat.rs):  *)
(* the Nat / PosNat traits, the Suc type constructor, the suc_nat_impl      *)
(* macro table, and the USIndex accessors of the index arrays [usize; n].   *)
EXTENDS Integers, Sequences, FiniteSets, TLC

\* ---------------------------------------------------------------- bounds
\* Largest index handed to an accessor (indices are usize; 32 is already
\* out of range for the longest array).
MaxIndex == 33
\* Number of writes performed on one array.
MaxWrites == 1
\* Longest chain of Pre / Suc applied to a named numeral.
MaxPath == 2

\* The usize values stored in an index array: the accessors never inspect an
\* element, so two values stand for all of them.
Values == {0, 1}
Indices == 0..MaxIndex

\* ------------------------------------------------------- type expressions
\* A type is N0, Suc<T>, or the outcome of an ill-typed expression.
N0 == [tag |-> "N0"]
Suc(T) == [tag |-> "Suc", arg |-> T]
TypeError == [tag |-> "error"]

\* The table with the row of N31 mistyped.
SucNatImplTypo ==
    [r \in 1..32 |-> <<r - 1, r, IF r = 31 THEN 30 ELSE r>>]

\* The invocation of suc_nat_impl!: one row ($pre, $cur, $n) per numeral,
\* identifiers Nk written as k.
SucNatImpl ==
 <<
    << 0,  1,  1>>, << 1,  2,  2>>, << 2,  3,  3>>, << 3,  4,  4>>, << 4,  5,  5>>,
    << 5,  6,  6>>, << 6,  7,  7>>, << 7,  8,  8>>, << 8,  9,  9>>, << 9, 10, 10>>,
    <<10, 11, 11>>, <<11, 12, 12>>, <<12, 13, 13>>, <<13, 14, 14>>, <<14, 15, 15>>,
    <<15, 16, 16>>, <<16, 17, 17>>, <<17, 18, 18>>, <<18, 19, 19>>, <<19, 20, 20>>,
    <<20, 21, 21>>, <<21, 22, 22>>, <<22, 23, 23>>, <<23, 24, 24>>, <<24, 25, 25>>,
    <<25, 26, 26>>, <<26, 27, 27>>, <<27, 28, 28>>, <<28, 29, 29>>, <<29, 30, 30>>,
    <<30, 31, 31>>, <<31, 32, 32>>
 >>

\* The identifiers the module defines: N0 and every $cur.
Names == {0} \cup {SucNatImpl[r][2] : r \in 1..Len(SucNatImpl)}

RowOf(name) == CHOOSE r \in 1..Len(SucNatImpl) : SucNatImpl[r][2] = name

\* `pub type $cur = Suc<$pre>`: the type an identifier stands for.
RECURSIVE TypeOf(_)
TypeOf(name) ==
    IF name = 0 THEN N0 ELSE Suc(TypeOf(SucNatImpl[RowOf(name)][1]))

\* The impls of Nat: N0 with value 0 and array [usize; 0], and one per row
\* with value $n and array [usize; $n].
NatImpls ==
    {[self |-> N0, value |-> 0, ixlen |-> 0]} \cup
    {[self |-> TypeOf(SucNatImpl[r][2]),
      value |-> SucNatImpl[r][3],
      ixlen |-> SucNatImpl[r][3]] : r \in 1..Len(SucNatImpl)}

\* T: Nat
IsNat(T) == \E impl \in NatImpls : impl.self = T

NatImplOf(T) == CHOOSE impl \in NatImpls : impl.self = T

\* value() off by one for the positive numerals.
ValueOffByOne(T) == IF T = N0 THEN 0 ELSE NatImplOf(T).value - 1

\* <T as Nat>::value()
Value(T) == NatImplOf(T).value

\* An IxArray one element short.
IxArrayLenShort(T) == IF T = N0 THEN 0 ELSE NatImplOf(T).ixlen - 1

\* Length of <T as Nat>::IxArray
IxArrayLen(T) == NatImplOf(T).ixlen

\* Suc<T> with the wrapped type dropped.
SucOfSame(T) == IF T # TypeError /\ IsNat(T) THEN T ELSE TypeError

\* Suc<T> is a type only for T: Nat (struct Suc<T: Nat>).
SucOf(T) == IF T # TypeError /\ IsNat(T) THEN Suc(T) ELSE TypeError

\* T: PosNat holds through `impl<T: Nat> PosNat for Suc<T> where Suc<T>: Nat`.
IsPosNat(T) == /\ T.tag = "Suc"
               /\ IsNat(T.arg)
               /\ IsNat(T)

\* Pre = Self instead of Pre = T.
PreOfSelf(T) == IF IsPosNat(T) THEN T ELSE TypeError

\* A saturating predecessor: N0 is given itself as Pre.
PreOfSaturating(T) ==
    IF IsPosNat(T) THEN T.arg ELSE IF T = N0 THEN N0 ELSE TypeError

\* <T as PosNat>::Pre; a compile-time error when T is not PosNat.
PreOf(T) == IF IsPosNat(T) THEN T.arg ELSE TypeError

\* ------------------------------------------------------------ index arrays
\* An array [usize; n] is a sequence of length n; element i of the array
\* (0-based) is self[i + 1].  An accessor yields a reference to a place of
\* the array, panics, or has undefined behaviour.
RefTo(place) == [kind |-> "ref", place |-> place]
Panic == [kind |-> "panic", place |-> -1]
Undefined == [kind |-> "ub", place |-> -1]

\* `self[index]`: bounds-checked indexing.
SliceIndex(self, index) ==
    IF index < Len(self) THEN RefTo(index) ELSE Panic

\* `self.get_unchecked(index)`: no bounds check.
GetUnchecked(self, index) ==
    IF index < Len(self) THEN RefTo(index) ELSE Undefined

\* impl USIndex for [usize; 0]
UsIndex0(self, index) == Panic
UsIndexMut0(self, index) == Panic
UsIndexUnchecked0(self, index) == GetUnchecked(self, index)
UsIndexUncheckedMut0(self, index) == GetUnchecked(self, index)

\* impl USIndex for [usize; $n]
\* us_index with the index clamped to the last element.
UsIndexNClamped(self, index) ==
    IF index < Len(self) THEN RefTo(index) ELSE RefTo(Len(self) - 1)

UsIndexN(self, index) == SliceIndex(self, index)

\* us_index_mut yielding the following element.
UsIndexMutNNext(self, index) ==
    IF index < Len(self) THEN RefTo((index + 1) % Len(self)) ELSE Panic

UsIndexMutN(self, index) == SliceIndex(self, index)

\* us_index_unchecked always yielding the first element.
UsIndexUncheckedNFirst(self, index) ==
    IF index < Len(self) THEN RefTo(0) ELSE Undefined

UsIndexUncheckedN(self, index) == GetUnchecked(self, index)

\* us_index_unchecked_mut yielding the preceding element.
UsIndexUncheckedMutNPrev(self, index) ==
    IF index < Len(self) THEN RefTo((index + Len(self) - 1) % Len(self))
    ELSE Undefined

UsIndexUncheckedMutN(self, index) == GetUnchecked(self, index)

\* Method resolution of the USIndex trait on [usize; Len(self)].
UsIndex(self, index) ==
    IF Len(self) = 0 THEN UsIndex0(self, index) ELSE UsIndexN(self, index)
UsIndexMut(self, index) ==
    IF Len(self) = 0 THEN UsIndexMut0(self, index)
    ELSE UsIndexMutN(self, index)
UsIndexUnchecked(self, index) ==
    IF Len(self) = 0 THEN UsIndexUnchecked0(self, index)
    ELSE UsIndexUncheckedN(self, index)
UsIndexUncheckedMut(self, index) ==
    IF Len(self) = 0 THEN UsIndexUncheckedMut0(self, index)
    ELSE UsIndexUncheckedMutN(self, index)

\* The indices by which an array can be indexed.
ValidIndices(self) == {i \in Indices : GetUnchecked(self, i).kind = "ref"}

\* ------------------------------------------------------------------ state
VARIABLES
    base,     \* the named numeral Nk a type expression starts from
    path,     \* the Pre / Suc projections applied to it, in order
    ty,       \* the type the expression resolves to
    val,      \* the result of value() on ty, NoVal before the call
    arr,      \* a value of type <ty as Nat>::IxArray
    op,       \* the accessor call whose reference is held: name, index, value
    res,      \* its outcome: kind, place referred to, value read or written
    nwrites   \* number of writes performed

vars == <<base, path, ty, val, arr, op, res, nwrites>>

NoVal == -1
NoOp == [name |-> "none", index |-> -1, v |-> -1]
NoRes == [kind |-> "none", place |-> -1, val |-> -1]

Reads == {"us_index", "us_index_unchecked"}
Writes == {"us_index_mut", "us_index_unchecked_mut"}

\* No reference into arr is held, and no panic or crash has ended the run:
\* a panic unwinds the caller and a crash ends the process.
Idle == res.kind = "none"

\* --------------------------------------------------- type-level operations
InitNat ==
    /\ base \in Names
    /\ path = <<>>
    /\ ty = TypeOf(base)
    /\ val = NoVal
    /\ arr = <<>>
    /\ op = NoOp
    /\ res = NoRes
    /\ nwrites = 0

\* <ty as PosNat>::Pre
TakePre ==
    /\ ty # TypeError
    /\ Len(path) < MaxPath
    /\ ty' = PreOf(ty)
    /\ path' = Append(path, "Pre")
    /\ val' = NoVal
    /\ UNCHANGED <<base, arr, op, res, nwrites>>

\* Suc<ty>
TakeSuc ==
    /\ ty # TypeError
    /\ Len(path) < MaxPath
    /\ ty' = SucOf(ty)
    /\ path' = Append(path, "Suc")
    /\ val' = NoVal
    /\ UNCHANGED <<base, arr, op, res, nwrites>>

\* <ty as Nat>::value()
CallValue ==
    /\ ty # TypeError
    /\ IsNat(ty)
    /\ val' = Value(ty)
    /\ UNCHANGED <<base, path, ty, arr, op, res, nwrites>>

NextNat == TakePre \/ TakeSuc \/ CallValue

NatSpec == InitNat /\ [][NextNat]_vars

\* ------------------------------------------------------ accessor operations
\* `let a: <Nk as Nat>::IxArray = [0us; k]`
Init ==
    /\ base \in Names
    /\ path = <<>>
    /\ ty = TypeOf(base)
    /\ val = NoVal
    /\ arr = [j \in 1..IxArrayLen(ty) |-> 0]
    /\ op = NoOp
    /\ res = NoRes
    /\ nwrites = 0

\* `let r = a.us_index(i)`, read through r
UsIndexCall(i) ==
    /\ Idle
    /\ LET r == UsIndex(arr, i) IN
        /\ op' = [name |-> "us_index", index |-> i, v |-> -1]
        /\ res' = IF r.kind = "ref"
                  THEN [kind |-> "ref", place |-> r.place,
                        val |-> arr[r.place + 1]]
                  ELSE [kind |-> "panic", place |-> -1, val |-> -1]
    /\ UNCHANGED <<base, path, ty, val, arr, nwrites>>

\* `let r = a.us_index_unchecked(i)`, read through r; out of range the read is
\* undefined: the process crashes or r yields an arbitrary value.
UsIndexUncheckedCall(i) ==
    /\ Idle
    /\ LET r == UsIndexUnchecked(arr, i) IN
        /\ op' = [name |-> "us_index_unchecked", index |-> i, v |-> -1]
        /\ IF r.kind = "ref"
           THEN res' = [kind |-> "ref", place |-> r.place,
                        val |-> arr[r.place + 1]]
           ELSE \/ res' = [kind |-> "crash", place |-> -1, val |-> -1]
                \/ \E g \in Values :
                      res' = [kind |-> "wild", place |-> -1, val |-> g]
    /\ UNCHANGED <<base, path, ty, val, arr, nwrites>>

\* `let r = a.us_index_mut(i); *r = v`
UsIndexMutCall(i, v) ==
    /\ Idle
    /\ LET r == UsIndexMut(arr, i) IN
        /\ r.kind = "ref" => nwrites < MaxWrites
        /\ op' = [name |-> "us_index_mut", index |-> i, v |-> v]
        /\ IF r.kind = "ref"
           THEN /\ arr' = [arr EXCEPT ![r.place + 1] = v]
                /\ res' = [kind |-> "ref", place |-> r.place, val |-> v]
                /\ nwrites' = nwrites + 1
           ELSE /\ res' = [kind |-> "panic", place |-> -1, val |-> -1]
                /\ UNCHANGED <<arr, nwrites>>
    /\ UNCHANGED <<base, path, ty, val>>

\* `let r = a.us_index_unchecked_mut(i); *r = v`; out of range the write is
\* undefined: the process crashes, or the store lands outside the array or,
\* the offset wrapping around, on any of its elements.
UsIndexUncheckedMutCall(i, v) ==
    /\ Idle
    /\ nwrites < MaxWrites
    /\ LET r == UsIndexUncheckedMut(arr, i) IN
        /\ op' = [name |-> "us_index_unchecked_mut", index |-> i, v |-> v]
        /\ IF r.kind = "ref"
           THEN /\ arr' = [arr EXCEPT ![r.place + 1] = v]
                /\ res' = [kind |-> "ref", place |-> r.place, val |-> v]
                /\ nwrites' = nwrites + 1
           ELSE \/ /\ res' = [kind |-> "crash", place |-> -1, val |-> -1]
                   /\ UNCHANGED <<arr, nwrites>>
                \/ /\ res' = [kind |-> "wild", place |-> -1, val |-> v]
                   /\ \/ arr' = arr
                      \/ \E j \in 1..Len(arr) : arr' = [arr EXCEPT ![j] = v]
                   /\ nwrites' = nwrites + 1
    /\ UNCHANGED <<base, path, ty, val>>

\* The reference r goes out of scope: the borrow of the array ends.
Release ==
    /\ res.kind \in {"ref", "wild"}
    /\ op' = NoOp
    /\ res' = NoRes
    /\ UNCHANGED <<base, path, ty, val, arr, nwrites>>

Next ==
    \/ \E i \in Indices : UsIndexCall(i)
    \/ \E i \in Indices : UsIndexUncheckedCall(i)
    \/ \E i \in Indices, v \in Values : UsIndexMutCall(i, v)
    \/ \E i \in Indices, v \in Values : UsIndexUncheckedMutCall(i, v)
    \/ Release

Spec == Init /\ [][Next]_vars

\* ----------------------------------------------------------------- claims
\* C1: for every k in 0..32 the numeral Nk exists and value() of Nk is k.
C1_ValueOfNumeral ==
    /\ Names = 0..32
    /\ (path = <<>> /\ val # NoVal) => val = base

C1_Witness == base = 32 /\ path = <<>> /\ val = 32

\* C2: the IxArray of Nk has exactly k elements: its length is value() of Nk
\* and the indices by which it can be indexed are exactly 0..value()-1.
C2_IxArrayLength ==
    /\ Len(arr) = base
    /\ op.name = "us_index" => (res.kind = "ref" <=> op.index \in 0..(base - 1))
    /\ Idle =>
          /\ Len(arr) = Value(ty)
          /\ ValidIndices(arr) = 0..(Value(ty) - 1)

C2_Witness ==
    /\ base = 32
    /\ Len(arr) = 32
    /\ op.name = "us_index"
    /\ op.index = 31
    /\ res.kind = "ref"

\* C3: on an array of length L in 0..32, us_index and us_index_mut called
\* with an index i >= L panic and yield no reference; on the array of length
\* 0 they panic for every index.
C3_CheckedOutOfRangePanics ==
    (op.name \in {"us_index", "us_index_mut"} /\ op.index >= Len(arr))
        => (res.kind = "panic" /\ res.place = -1 /\ res.val = -1)

C3_Witness ==
    /\ Len(arr) = 0
    /\ op.name = "us_index_mut"
    /\ op.index = 0
    /\ res.kind = "panic"

\* C4: for every k in 1..32, <Nk as PosNat>::Pre is a numeral whose value()
\* is k - 1.
C4_PreValue ==
    (path = <<"Pre">> /\ base \in 1..32) =>
        /\ IsNat(ty)
        /\ val # NoVal => val = base - 1

C4_Witness == base = 32 /\ path = <<"Pre">> /\ val = 31

\* C5: for every k in 0..31, Suc<Nk> is a numeral whose value() is k + 1.
C5_SucValue ==
    (path = <<"Suc">> /\ base \in 0..31) =>
        /\ IsNat(ty)
        /\ val # NoVal => val = base + 1

C5_Witness == base = 31 /\ path = <<"Suc">> /\ val = 32

\* C6: for every k in 1..32 the successor of the predecessor of Nk has
\* value() k, and for every k in 0..31 the predecessor of the successor of
\* Nk has value() k.
C6_SucPreRoundTrip ==
    /\ (path = <<"Pre", "Suc">> /\ base \in 1..32) =>
          /\ IsNat(ty)
          /\ val # NoVal => val = base
    /\ (path = <<"Suc", "Pre">> /\ base \in 0..31) =>
          /\ IsNat(ty)
          /\ val # NoVal => val = base

C6_Witness == base = 31 /\ path = <<"Suc", "Pre">> /\ val = 31

\* C7: on an array of length L in 1..32 and for every index i in 0..L-1,
\* us_index(i) and us_index_unchecked(i) both yield a reference, to the same
\* place, and the value read through it is the element stored at position i.
C7_CheckedEqualsUnchecked ==
    /\ Idle =>
          \A i \in 0..(Len(arr) - 1) :
              /\ UsIndex(arr, i).kind = "ref"
              /\ UsIndexUnchecked(arr, i) = UsIndex(arr, i)
    /\ (op.name \in Reads /\ op.index < Len(arr)) =>
          /\ res.kind = "ref"
          /\ res.place = op.index
          /\ res.val = arr[op.index + 1]

C7_Witness ==
    /\ op.name = "us_index_unchecked"
    /\ op.index < Len(arr)
    /\ res.kind = "ref"
    /\ res.val = 1
    /\ \E j \in 1..Len(arr) : arr[j] = 0

\* C8: after v is written through us_index_mut(i) or us_index_unchecked_mut(i)
\* with i in 0..L-1, reading index i through us_index(i) and through
\* us_index_unchecked(i) yields v.
C8_WriteThenRead ==
    (op.name \in Writes /\ op.index < Len(arr) /\ res.kind # "panic") =>
        /\ res.kind = "ref"
        /\ UsIndex(arr, op.index).kind = "ref"
        /\ arr[UsIndex(arr, op.index).place + 1] = op.v
        /\ UsIndexUnchecked(arr, op.index).kind = "ref"
        /\ arr[UsIndexUnchecked(arr, op.index).place + 1] = op.v

C8_Witness ==
    /\ op.name = "us_index_unchecked_mut"
    /\ op.index < Len(arr)
    /\ res.kind = "ref"
    /\ op.v = 1
    /\ \E j \in 1..Len(arr) : arr[j] = 0

\* C9: the predecessor is defined for a numeral exactly when its value() is
\* in 1..32: N0 is not PosNat and requesting its Pre is a type error, while
\* every numeral Suc<T> has Pre = T.
C9_PreDefinedIffPositive ==
    /\ (ty # TypeError /\ IsNat(ty)) =>
          (IsPosNat(ty) <=> Value(ty) \in 1..32)
    /\ IsPosNat(ty) => IsNat(ty)
    /\ ty = N0 => PreOf(ty) = TypeError
    /\ (ty.tag = "Suc" /\ IsNat(ty)) => PreOf(ty) = ty.arg
    /\ (base = 0 /\ path = <<"Pre">>) => ty = TypeError

C9_Witness == base = 0 /\ path = <<"Pre">> /\ ty = TypeError

\* C10: no accessor call changes the length of the array; a write through
\* us_index_mut(i) or us_index_unchecked_mut(i) with i in 0..L-1 changes only
\* element i; reads and checked accesses that panic change no element.
C10_Frame ==
    [][ /\ Len(arr') = Len(arr)
        /\ (op'.name \in Writes /\ op'.index < Len(arr) /\ res'.kind = "ref") =>
              \A j \in 0..(Len(arr) - 1) :
                  j # op'.index => arr'[j + 1] = arr[j + 1]
        /\ (op'.name \in Reads \/ res'.kind = "panic") => arr' = arr
      ]_vars

C10_Witness ==
    /\ Len(arr) = 32
    /\ op.name = "us_index_mut"
    /\ res.kind = "ref"
    /\ arr[op.index + 1] = 1
    /\ \E j \in 1..Len(arr) : arr[j] = 0

====
